---- MODULE Spec2Model ----
(***************************************************************************)
(* Model of webapp/app.py: the Flask status service.                       *)
(*                                                                         *)
(* One GET /api/status request is followed through the statements of       *)
(* status() and get_system_info() in the order Python evaluates them; the  *)
(* operating system (commands, files, wall clock, host name) is the        *)
(* environment and is chosen nondeterministically at each probe.           *)
(* GET /api/health is a single step that may happen at any time.           *)
(***************************************************************************)
EXTENDS Integers, Sequences, FiniteSets, TLC

VARIABLES
    run,        \* the /api/status request being handled: position, locals, response
    twin,       \* the same request replayed with one probe's outcome changed
    diff,       \* the probe whose outcome differs in twin ("none" so far)
    elapsed,    \* seconds the request has spent blocked in run_command
    clock,      \* the wall clock datetime.now() reads
    hostName,   \* the host name socket.gethostname() reads
    setBack,    \* the wall clock was set back since the last timestamp was taken
    renamed,    \* the host was renamed since the last host name was read
    prev,       \* timestamp and hostname of the report sent before this request
    healthResp, \* the last /api/health response
    call        \* the last direct call of a helper function (SpecFn, SpecCmd)

vars == <<run, twin, diff, elapsed, clock, hostName, setBack, renamed,
          prev, healthResp, call>>

(***************************************************************************)
(* Bounds and constants                                                    *)
(***************************************************************************)
Timeout == 5

MaxClock == 2

\* /api/status requests followed one after the other where the clock stands still
MaxRequests == 1

MaxLen == 3

\* a command that runs longer than the timeout allows (or never ends)
LongRun == Timeout + 1

(***************************************************************************)
(* Python values                                                           *)
(***************************************************************************)
None == [tag |-> "None"]

Str(s) == [tag |-> "str", chars |-> s]

Num(n) == [tag |-> "int", n |-> n]

\* truth value of a str-or-None: None and "" are false
Truthy(v) == v.tag = "str" /\ v.chars # <<>>

\* A str is the sequence of its characters' code points.
ord(c) ==
    CASE c = "\n" -> 10
      [] c = " " -> 32
      [] c = "0" -> 48
      [] c = "1" -> 49
      [] c = "U" -> 85
      [] c = "a" -> 97
      [] c = "b" -> 98
      [] c = "k" -> 107
      [] c = "n" -> 110
      [] c = "o" -> 111
      [] c = "w" -> 119

text(s) == [i \in 1..Len(s) |-> ord(s[i])]

\* the str "Unknown"
Unknown == Str(text(<<"U", "n", "k", "n", "o", "w", "n">>))

\* the characters str.strip() removes, those str.isspace() holds of:
\* \t \n \x0b \x0c \r, \x1c-\x1f, space, \x85, \xa0, U+1680, U+2000-U+200A,
\* U+2028, U+2029, U+202F, U+205F, U+3000
Whitespace ==
    (9..13) \cup (28..32) \cup {133, 160, 5760} \cup (8192..8202)
        \cup {8232, 8233, 8239, 8287, 12288}

RECURSIVE lstrip(_)
lstrip(s) == IF s # <<>> /\ Head(s) \in Whitespace THEN lstrip(Tail(s)) ELSE s

RECURSIVE rstrip(_)
rstrip(s) ==
    IF s # <<>> /\ s[Len(s)] \in Whitespace
    THEN rstrip(SubSeq(s, 1, Len(s) - 1))
    ELSE s

strip(s) == rstrip(lstrip(s))

(***************************************************************************)
(* Text mode: subprocess.run(text=True) and open(path, "r") hand out str,  *)
(* the bytes decoded in the locale encoding (UTF-8) with "\r\n" and "\r"   *)
(* turned into "\n"; bytes that are not valid raise UnicodeDecodeError     *)
(***************************************************************************)
\* the bytes of an ASCII str
ascii(s) == text(s)

\* how many bytes the UTF-8 sequence led by byte b0 has; 0 when b0 leads none
utf8_len(b0) ==
    IF b0 \in 0..127 THEN 1
    ELSE IF b0 \in 194..223 THEN 2
    ELSE IF b0 \in 224..239 THEN 3
    ELSE IF b0 \in 240..244 THEN 4
    ELSE 0

\* the first n bytes of s are one well-formed sequence: no overlong form, no
\* surrogate, nothing above U+10FFFF
utf8_valid(s, n) ==
    /\ n > 0
    /\ Len(s) >= n
    /\ n >= 2 =>
          s[2] \in (IF s[1] = 224 THEN 160..191
                    ELSE IF s[1] = 237 THEN 128..159
                    ELSE IF s[1] = 240 THEN 144..191
                    ELSE IF s[1] = 244 THEN 128..143
                    ELSE 128..191)
    /\ \A i \in 3..n : s[i] \in 128..191

\* the code point the first n bytes of s encode
utf8_point(s, n) ==
    IF n = 1 THEN s[1]
    ELSE IF n = 2 THEN (s[1] - 192) * 64 + (s[2] - 128)
    ELSE IF n = 3 THEN (s[1] - 224) * 4096 + (s[2] - 128) * 64 + (s[3] - 128)
    ELSE (s[1] - 240) * 262144 + (s[2] - 128) * 4096 + (s[3] - 128) * 64 + (s[4] - 128)

RECURSIVE decodable(_)
decodable(s) ==
    \/ s = <<>>
    \/ LET n == utf8_len(s[1])
       IN  utf8_valid(s, n) /\ decodable(SubSeq(s, n + 1, Len(s)))

\* bytes.decode("utf-8") of bytes that are decodable
RECURSIVE utf8(_)
utf8(s) ==
    IF s = <<>> THEN <<>>
    ELSE LET n == utf8_len(s[1])
         IN  <<utf8_point(s, n)>> \o utf8(SubSeq(s, n + 1, Len(s)))

\* universal newlines: "\r\n" and "\r" are read as "\n"
RECURSIVE translate_newlines(_)
translate_newlines(s) ==
    IF s = <<>> THEN <<>>
    ELSE IF s[1] = 13
    THEN <<10>> \o translate_newlines(IF Len(s) >= 2 /\ s[2] = 10
                                      THEN SubSeq(s, 3, Len(s))
                                      ELSE Tail(s))
    ELSE <<s[1]>> \o translate_newlines(Tail(s))

\* what text mode makes of bytes: the str, or UnicodeDecodeError (ok is false)
decode(bytes) ==
    IF decodable(bytes)
    THEN [ok |-> TRUE, chars |-> translate_newlines(utf8(bytes))]
    ELSE [ok |-> FALSE]

(***************************************************************************)
(* The environment's answers                                               *)
(***************************************************************************)
Strings(A, n) == UNION {[1..k -> A] : k \in 0..n}

\* what a shell command does when it is run: it cannot be spawned, or it
\* writes the bytes out to its standard output and the bytes err to its standard
\* error, exits with rc and takes so many seconds
Behaviours(outs, errs) ==
    {[kind |-> "spawn_error"]} \cup
    [kind : {"runs"}, rc : {0, 1, 127}, out : outs, err : errs,
     takes : {0, Timeout, LongRun}]

\* what reading a file does
FileStates(contents) ==
    {[kind |-> "missing"], [kind |-> "denied"]} \cup [kind : {"ok"}, content : contents]

\* b" \x0b\n", b"\xc2\xa0a b\r\n" (\xc2\xa0 is U+00A0), b"\xff\n"
SampleOut == {<<32, 11, 10>>, <<194, 160, 97, 32, 98, 13, 10>>, <<255, 10>>}

\* b"", b"\xff"
SampleErr == {<<>>, <<255>>}

\* b"", b"1\n", b"0\n", b"1\n1\n", b"\xc2\xa01\x0b", b"1\xff"
SampleContent ==
    {<<>>, ascii(<<"1", "\n">>), ascii(<<"0", "\n">>), ascii(<<"1", "\n", "1", "\n">>),
     <<194, 160, 49, 11>>, <<49, 255>>}

\* the command writes something that is not text
Garbled(b) == b.kind = "runs" /\ ~(decodable(b.out) /\ decodable(b.err))

\* the garbled ones among them exit 0 at once
CmdBehaviours ==
    {b \in Behaviours(SampleOut, SampleErr) : Garbled(b) => (b.rc = 0 /\ b.takes = 0)}

FipsFiles == FileStates(SampleContent)

\* every stdout of up to MaxLen bytes out of "a", "\n", "\r", \xc2, \xa0, with
\* and without garbage on stderr
AllCmdBehaviours == Behaviours(Strings({97, 10, 13, 194, 160}, MaxLen), SampleErr)

\* every content of up to MaxLen bytes out of "1", "0", "\n", "\x0b", \xc2, \xa0
AllFipsFiles == FileStates(Strings({49, 48, 10, 11, 194, 160}, MaxLen))

HostNames == {"host-a", "host-b"}

Probes == {"uptime", "fips", "crypto", "stig", "bootc"}

(***************************************************************************)
(* webapp/app.py                                                           *)
(***************************************************************************)
\* the three command lines
UptimeCmd == "uptime -p"

CryptoCmd == "update-crypto-policies --show"

BootcCmd == "bootc status --json 2>/dev/null"

\* what /bin/sh -c cmd leaves on the captured stderr: nothing when the command
\* line sends it to /dev/null
captured_stderr(cmd, b) == IF cmd = BootcCmd THEN <<>> ELSE b.err

\* a faulty variant: the timeout argument is left out
subprocess_run_unbounded(cmd, b) ==
    IF b.kind = "spawn_error" THEN [kind |-> "error", blocked |-> 0]
    ELSE LET stdout == decode(b.out)
             stderr == decode(captured_stderr(cmd, b))
         IN  IF stdout.ok /\ stderr.ok
             THEN [kind |-> "exit", rc |-> b.rc, out |-> stdout.chars,
                   blocked |-> b.takes]
             ELSE [kind |-> "error", blocked |-> b.takes]

\* subprocess.run(cmd, shell=True, capture_output=True, text=True, timeout=5):
\* OSError, TimeoutExpired, UnicodeDecodeError once all output is read, or the
\* CompletedProcess with the decoded stdout
subprocess_run(cmd, b) ==
    IF b.kind = "spawn_error" THEN [kind |-> "error", blocked |-> 0]
    ELSE IF b.takes > Timeout THEN [kind |-> "timeout", blocked |-> Timeout]
    ELSE LET stdout == decode(b.out)
             stderr == decode(captured_stderr(cmd, b))
         IN  IF stdout.ok /\ stderr.ok
             THEN [kind |-> "exit", rc |-> b.rc, out |-> stdout.chars,
                   blocked |-> b.takes]
             ELSE [kind |-> "error", blocked |-> b.takes]

run_command(cmd, b) ==
    LET result == subprocess_run(cmd, b)
    IN  IF result.kind = "exit"
        THEN IF result.rc = 0 THEN Str(strip(result.out)) ELSE None
        ELSE None

\* a faulty variant: the content is compared as read
get_fips_status_unstripped(f) ==
    IF f.kind = "ok"
    THEN LET read == decode(f.content)
         IN  IF read.ok THEN read.chars = text(<<"1">>) ELSE FALSE
    ELSE FALSE

get_fips_status(f) ==
    IF f.kind = "ok"
    THEN LET read == decode(f.content)
         IN  IF read.ok THEN strip(read.chars) = text(<<"1">>) ELSE FALSE
    ELSE FALSE

get_crypto_policy(b) ==
    LET policy == run_command(CryptoCmd, b)
    IN  IF Truthy(policy) THEN policy ELSE Unknown

get_stig_info(exists) == exists

get_bootc_status(b) ==
    LET status == run_command(BootcCmd, b)
    IN  IF Truthy(status) THEN status ELSE None

\* run_command("uptime -p") or "Unknown"
uptime_or_unknown(b) ==
    LET up == run_command(UptimeCmd, b)
    IN  IF Truthy(up) THEN up ELSE Unknown


(***************************************************************************)
(* Responses                                                               *)
(***************************************************************************)
NoResponse == [code |-> 0, body |-> <<>>]

\* what Flask answers when the view function raises
ServerError == [code |-> 500, body |-> [error |-> "Internal Server Error"]]

\* flask.jsonify(...) returned from a view: the JSON document, status 200
jsonify(doc) == [code |-> 200, body |-> doc]

NoReport == [any |-> FALSE, timestamp |-> 0, hostname |-> ""]

ReportOf(resp) ==
    IF resp.code = 200
    THEN [any |-> TRUE, timestamp |-> resp.body.timestamp,
          hostname |-> resp.body.system.hostname]
    ELSE NoReport

(***************************************************************************)
(* How a probe went, seen from outside the program                         *)
(***************************************************************************)
CmdOutcome(cmd, b) ==
    IF b.kind = "spawn_error" THEN "error"
    ELSE IF b.takes > Timeout THEN "timeout"
    ELSE IF b.rc = 127 THEN "missing"
    ELSE IF b.rc # 0 THEN "nonzero"
    ELSE IF ~(decodable(b.out) /\ decodable(captured_stderr(cmd, b))) THEN "undecodable"
    ELSE "ok"

FailedOutcomes == {"error", "timeout", "missing", "nonzero", "undecodable", "denied"}

(***************************************************************************)
(* One request to /api/status: the statements of status() and of           *)
(* get_system_info(), in evaluation order                                  *)
(***************************************************************************)
Idle ==
    [pc |-> "idle", hostname |-> "", uptime |-> None, load_average |-> <<>>,
     cpu_count |-> None, fips_enabled |-> FALSE, crypto_policy |-> None,
     stig_installed |-> FALSE, timestamp |-> 0, bootc_status |-> None,
     resp |-> NoResponse,
     calls |-> [p \in Probes |-> 0], how |-> [p \in Probes |-> "unset"],
     afterSetBack |-> FALSE, afterRename |-> FALSE]

\* a request arrives: status() is entered with fresh locals
enter_status(r) == [Idle EXCEPT !.pc = "identity"]

\* "hostname": socket.gethostname() and the platform.* facts
sys_identity(r, name, wasRenamed) ==
    [r EXCEPT !.hostname = name, !.afterRename = wasRenamed, !.pc = "uptime"]

\* "uptime": run_command("uptime -p") or "Unknown"
sys_uptime(r, b) ==
    [r EXCEPT !.uptime = uptime_or_unknown(b),
              !.calls["uptime"] = @ + 1, !.how["uptime"] = CmdOutcome(UptimeCmd, b),
              !.pc = "load_average"]

\* "load_average": os.getloadavg(), which raises OSError when the load
\* average cannot be obtained; nothing catches it, the view raises
sys_load_average(r, available) ==
    IF available
    THEN [r EXCEPT !.load_average = <<1, 1, 1>>, !.pc = "cpu_count"]
    ELSE [r EXCEPT !.resp = ServerError, !.pc = "idle"]

\* "cpu_count": os.cpu_count(), None when undetermined
sys_cpu_count(r, n) == [r EXCEPT !.cpu_count = n, !.pc = "fips"]

\* fips_enabled = get_fips_status()
st_fips(r, f) ==
    [r EXCEPT !.fips_enabled = get_fips_status(f),
              !.calls["fips"] = @ + 1,
              !.how["fips"] = IF f.kind # "ok" THEN f.kind
                              ELSE IF decodable(f.content) THEN "ok"
                              ELSE "undecodable",
              !.pc = "crypto"]

\* a faulty variant: a failed command raises out of the view instead of falling back
st_crypto_raising(r, b) ==
    IF run_command(CryptoCmd, b) = None
    THEN [r EXCEPT !.calls["crypto"] = @ + 1, !.how["crypto"] = CmdOutcome(CryptoCmd, b),
                   !.resp = ServerError, !.pc = "idle"]
    ELSE [r EXCEPT !.crypto_policy = get_crypto_policy(b),
                   !.calls["crypto"] = @ + 1, !.how["crypto"] = CmdOutcome(CryptoCmd, b),
                   !.pc = "stig"]

\* crypto_policy = get_crypto_policy()
st_crypto(r, b) ==
    [r EXCEPT !.crypto_policy = get_crypto_policy(b),
              !.calls["crypto"] = @ + 1, !.how["crypto"] = CmdOutcome(CryptoCmd, b),
              !.pc = "stig"]

\* stig_installed = get_stig_info()
st_stig(r, exists) ==
    [r EXCEPT !.stig_installed = get_stig_info(exists),
              !.calls["stig"] = @ + 1,
              !.how["stig"] = IF exists THEN "ok" ELSE "missing",
              !.pc = "timestamp"]

\* a faulty variant: the timestamp is taken once, when the module is loaded
st_timestamp_at_import(r, now, wasSetBack) ==
    [r EXCEPT !.timestamp = 0, !.afterSetBack = wasSetBack, !.pc = "bootc"]

\* "timestamp": datetime.now().isoformat()
st_timestamp(r, now, wasSetBack) ==
    [r EXCEPT !.timestamp = now, !.afterSetBack = wasSetBack, !.pc = "bootc"]

\* "bootc_status": get_bootc_status()
st_bootc(r, b) ==
    [r EXCEPT !.bootc_status = get_bootc_status(b),
              !.calls["bootc"] = @ + 1, !.how["bootc"] = CmdOutcome(BootcCmd, b),
              !.pc = "jsonify"]

\* the dict literal handed to jsonify
status_document(r) ==
    [timestamp |-> r.timestamp,
     system |-> [hostname |-> r.hostname, os |-> "Linux", release |-> "5.14",
                 architecture |-> "x86_64", python_version |-> "3.9",
                 uptime |-> r.uptime, load_average |-> r.load_average,
                 cpu_count |-> r.cpu_count],
     security |-> [fips_enabled |-> r.fips_enabled,
                   crypto_policy |-> r.crypto_policy,
                   stig_installed |-> r.stig_installed],
     bootc_status |-> r.bootc_status]

\* return jsonify({...})
st_return(r) == [r EXCEPT !.resp = jsonify(status_document(r)), !.pc = "idle"]

\* a faulty variant: health looks at the probes of the request in flight
health_probing(now) ==
    IF \E p \in Probes : run.how[p] \in FailedOutcomes
    THEN [code |-> 503, body |-> [status |-> "unhealthy", timestamp |-> now]]
    ELSE jsonify([status |-> "healthy", timestamp |-> now])

\* health(): jsonify({"status": "healthy", "timestamp": now})
health(now) == jsonify([status |-> "healthy", timestamp |-> now])

(***************************************************************************)
(* Actions                                                                 *)
(***************************************************************************)
\* The worlds the service is run in: the commands and files it may meet, and
\* whether a twin run is followed beside the request.
World ==
    [cmds |-> CmdBehaviours, files |-> FipsFiles, paths |-> BOOLEAN, two |-> FALSE,
     cpus |-> {None, Num(4)}, requests |-> MaxRequests]

\* how long a command takes does not show in a report, nor which non-zero
\* status it exits with: the twin runs meet commands that answer at once or
\* never and exit with 0 or 1, on a host whose CPUs can be counted
TwinWorld ==
    [World EXCEPT !.two = TRUE,
                  !.cmds = {b \in CmdBehaviours :
                               b.kind = "runs" => (b.takes # Timeout /\ b.rc # 127)},
                  !.cpus = {Num(4)}]

\* every probe answers at once: what is left is the clock and the host name
CalmWorld ==
    [cmds |-> {[kind |-> "runs", rc |-> 0, out |-> ascii(<<"a", "\n">>), err |-> <<>>,
                takes |-> 0]},
     files |-> {[kind |-> "ok", content |-> ascii(<<"1", "\n">>)]},
     paths |-> {TRUE}, two |-> FALSE, cpus |-> {None, Num(4)}, requests |-> MaxClock]

\* the outcomes the twin may see where the request sees b: the same, or,
\* while the two have not differed yet, any other
Alt(w, b, all) == IF w.two /\ diff = "none" THEN all ELSE {b}

Differs(p, b, b2) == diff' = IF b2 # b THEN p ELSE diff

Begin(w) ==
    /\ run.pc = "idle"
    /\ clock < w.requests
    /\ clock' = clock + 1
    /\ prev' = ReportOf(run.resp)
    /\ run' = enter_status(run)
    /\ twin' = enter_status(twin)
    /\ diff' = "none"
    /\ elapsed' = 0
    /\ UNCHANGED <<hostName, setBack, renamed, healthResp, call>>

Identity ==
    /\ run.pc = "identity"
    /\ run' = sys_identity(run, hostName, renamed)
    /\ twin' = sys_identity(twin, hostName, renamed)
    /\ renamed' = FALSE
    /\ UNCHANGED <<diff, elapsed, clock, hostName, setBack, prev, healthResp, call>>

Uptime(w) ==
    /\ run.pc = "uptime"
    /\ \E b \in w.cmds :
         \E b2 \in Alt(w, b, w.cmds) :
            /\ run' = sys_uptime(run, b)
            /\ twin' = sys_uptime(twin, b2)
            /\ Differs("uptime", b, b2)
            /\ elapsed' = elapsed + subprocess_run(UptimeCmd, b).blocked
    /\ UNCHANGED <<clock, hostName, setBack, renamed, prev, healthResp, call>>

LoadAverage ==
    /\ run.pc = "load_average"
    /\ \E available \in BOOLEAN :
         /\ run' = sys_load_average(run, available)
         /\ twin' = sys_load_average(twin, available)
    /\ UNCHANGED <<diff, elapsed, clock, hostName, setBack, renamed, prev,
                   healthResp, call>>

CpuCount(w) ==
    /\ run.pc = "cpu_count"
    /\ \E n \in w.cpus :
         /\ run' = sys_cpu_count(run, n)
         /\ twin' = sys_cpu_count(twin, n)
    /\ UNCHANGED <<diff, elapsed, clock, hostName, setBack, renamed, prev,
                   healthResp, call>>

Fips(w) ==
    /\ run.pc = "fips"
    /\ \E f \in w.files :
         \E f2 \in Alt(w, f, w.files) :
            /\ run' = st_fips(run, f)
            /\ twin' = st_fips(twin, f2)
            /\ Differs("fips", f, f2)
    /\ UNCHANGED <<elapsed, clock, hostName, setBack, renamed, prev,
                   healthResp, call>>

Crypto(w) ==
    /\ run.pc = "crypto"
    /\ \E b \in w.cmds :
         \E b2 \in Alt(w, b, w.cmds) :
            /\ run' = st_crypto(run, b)
            /\ twin' = st_crypto(twin, b2)
            /\ Differs("crypto", b, b2)
            /\ elapsed' = elapsed + subprocess_run(CryptoCmd, b).blocked
    /\ UNCHANGED <<clock, hostName, setBack, renamed, prev, healthResp, call>>

Stig(w) ==
    /\ run.pc = "stig"
    /\ \E e \in w.paths :
         \E e2 \in Alt(w, e, w.paths) :
            /\ run' = st_stig(run, e)
            /\ twin' = st_stig(twin, e2)
            /\ Differs("stig", e, e2)
    /\ UNCHANGED <<elapsed, clock, hostName, setBack, renamed, prev,
                   healthResp, call>>

Timestamp ==
    /\ run.pc = "timestamp"
    /\ run' = st_timestamp(run, clock, setBack)
    /\ twin' = st_timestamp(twin, clock, setBack)
    /\ setBack' = FALSE
    /\ UNCHANGED <<diff, elapsed, clock, hostName, renamed, prev, healthResp, call>>

Bootc(w) ==
    /\ run.pc = "bootc"
    /\ \E b \in w.cmds :
         \E b2 \in Alt(w, b, w.cmds) :
            /\ run' = st_bootc(run, b)
            /\ twin' = st_bootc(twin, b2)
            /\ Differs("bootc", b, b2)
            /\ elapsed' = elapsed + subprocess_run(BootcCmd, b).blocked
    /\ UNCHANGED <<clock, hostName, setBack, renamed, prev, healthResp, call>>

Return ==
    /\ run.pc = "jsonify"
    /\ run' = st_return(run)
    /\ twin' = st_return(twin)
    /\ UNCHANGED <<diff, elapsed, clock, hostName, setBack, renamed, prev,
                   healthResp, call>>

Health ==
    /\ healthResp' = health(clock)
    /\ UNCHANGED <<run, twin, diff, elapsed, clock, hostName, setBack,
                   renamed, prev, call>>

\* the administrator, NTP or the end of daylight saving time sets the wall
\* clock back: datetime.now() is local wall-clock time
SetBack ==
    /\ \E t \in 0..(clock - 1) : clock' = t
    /\ setBack' = TRUE
    /\ UNCHANGED <<run, twin, diff, elapsed, hostName, renamed, prev,
                   healthResp, call>>

\* the host is renamed while the service runs
Rename ==
    /\ \E h \in HostNames \ {hostName} : hostName' = h
    /\ renamed' = TRUE
    /\ UNCHANGED <<run, twin, diff, elapsed, clock, setBack, prev,
                   healthResp, call>>

Init ==
    /\ run = Idle
    /\ twin = Idle
    /\ diff = "none"
    /\ elapsed = 0
    /\ clock = 0
    /\ hostName = "host-a"
    /\ setBack = FALSE
    /\ renamed = FALSE
    /\ prev = NoReport
    /\ healthResp = NoResponse
    /\ call = [fn |-> "none"]

\* the steps of the request being handled
Handle(w) ==
    \/ Identity
    \/ Uptime(w)
    \/ LoadAverage
    \/ CpuCount(w)
    \/ Fips(w)
    \/ Crypto(w)
    \/ Stig(w)
    \/ Timestamp
    \/ Bootc(w)
    \/ Return

\* the service: /api/status requests one after the other, /api/health at any time
Next ==
    \/ Begin(World)
    \/ Handle(World)
    \/ Health

Spec == Init /\ [][Next]_vars

\* /api/status alone; the server runs the view function to its end once a
\* request is received (each request has a thread of its own to run on)
NextStatus ==
    \/ Begin(World)
    \/ Handle(World)

FairSpec == Init /\ [][NextStatus]_vars /\ WF_vars(Handle(World))

\* two runs of /api/status side by side, differing in one probe's outcome
NextTwin ==
    \/ Begin(TwinWorld)
    \/ Handle(TwinWorld)

SpecTwin == Init /\ [][NextTwin]_vars

\* consecutive requests while the wall clock and the host name change
NextClock ==
    \/ Begin(CalmWorld)
    \/ Handle(CalmWorld)
    \/ SetBack
    \/ Rename

SpecClock == Init /\ [][NextClock]_vars


(***************************************************************************)
(* The helper functions called directly, on every short input              *)
(***************************************************************************)
\* one call of a helper: what it returns depends on its argument alone
Called(fn, arg, ret) ==
    /\ call.fn = "none"
    /\ call' = [fn |-> fn, arg |-> arg, ret |-> ret]
    /\ UNCHANGED <<run, twin, diff, elapsed, clock, hostName, setBack, renamed,
                   prev, healthResp>>

CallFips == \E f \in AllFipsFiles : Called("get_fips_status", f, get_fips_status(f))

CallCrypto == \E b \in AllCmdBehaviours : Called("get_crypto_policy", b, get_crypto_policy(b))

CallBootc == \E b \in AllCmdBehaviours : Called("get_bootc_status", b, get_bootc_status(b))

CallUptime == \E b \in AllCmdBehaviours : Called("uptime", b, uptime_or_unknown(b))

\* get_fips_status on every short file
NextFn == CallFips

SpecFn == Init /\ [][NextFn]_vars

\* the three command helpers on every short output
NextCmd ==
    \/ CallCrypto
    \/ CallBootc
    \/ CallUptime

SpecCmd == Init /\ [][NextCmd]_vars

(***************************************************************************)
(* Properties                                                              *)
(***************************************************************************)
\* the request has been answered
Answered == run.pc = "idle" /\ run.resp.code # 0

Reported == Answered /\ run.resp.code = 200

Report == run.resp.body

AllWhitespace(s) == \A i \in 1..Len(s) : s[i] \in Whitespace

\* t is s without its leading and trailing whitespace
IsTrimOf(t, s) ==
    \E i \in 1..Len(s) :
      \E j \in i..Len(s) :
        /\ t = SubSeq(s, i, j)
        /\ s[i] \notin Whitespace
        /\ s[j] \notin Whitespace
        /\ \A k \in 1..(i - 1) : s[k] \in Whitespace
        /\ \A k \in (j + 1)..Len(s) : s[k] \in Whitespace

\* C1: whatever probes fail, in any combination, the answer is a 200 whose
\* field for each failed probe holds that probe's documented default.
C1_FailedProbesDefault ==
    Answered =>
        /\ run.resp.code = 200
        /\ run.how["uptime"] \in FailedOutcomes => Report.system.uptime = Unknown
        /\ run.how["crypto"] \in FailedOutcomes =>
               Report.security.crypto_policy = Unknown
        /\ run.how["bootc"] \in FailedOutcomes => Report.bootc_status = None
        /\ run.how["fips"] \in FailedOutcomes => Report.security.fips_enabled = FALSE
        /\ run.how["stig"] \in FailedOutcomes => Report.security.stig_installed = FALSE

\* C2: the /api/status handler never raises: whatever the platform exposes,
\* no request is answered with a server error.
C2_StatusNeverRaises == run.resp.code # 500

\* C3: get_fips_status returns true exactly when the file can be read and
\* holds "1" with nothing but whitespace around it; it returns false for any
\* other content and for any read error.
C3_FipsIffTrimmedOne ==
    call.fn = "get_fips_status" =>
        /\ call.ret \in BOOLEAN
        /\ call.ret <=> (/\ call.arg.kind = "ok"
                         /\ decodable(call.arg.content)
                         /\ IsTrimOf(text(<<"1">>), utf8(call.arg.content)))

C3_Witness ==
    /\ call.fn = "get_fips_status"
    /\ call.arg.kind = "ok"
    /\ call.arg.content = <<194, 160, 49>>
    /\ call.ret = TRUE

\* C4: every /api/health answer is a 200 with status "healthy" and exactly
\* one more field, the timestamp, and answering it runs no probe and touches
\* nothing of the /api/status request in flight.
C4_HealthIndependent ==
    [][healthResp' # healthResp =>
         /\ healthResp'.code = 200
         /\ DOMAIN healthResp'.body = {"status", "timestamp"}
         /\ healthResp'.body.status = "healthy"
         /\ healthResp'.body.timestamp = clock
         /\ UNCHANGED <<run, elapsed>>]_vars

\* /api/health was answered while an /api/status request whose probes failed
\* was waiting on its last command
C4_Witness ==
    /\ healthResp.code = 200
    /\ healthResp.body.timestamp = clock
    /\ run.pc = "bootc"
    /\ run.how["uptime"] = "timeout"
    /\ run.how["fips"] = "missing"
    /\ run.how["crypto"] = "missing"

\* C5: every /api/status answer holds exactly timestamp, system (8 fields),
\* security (3 fields) and bootc_status, whatever the probes did.
C5_ExactFields ==
    Answered =>
        /\ DOMAIN Report = {"timestamp", "system", "security", "bootc_status"}
        /\ DOMAIN Report.system =
               {"hostname", "os", "release", "architecture", "python_version",
                "uptime", "load_average", "cpu_count"}
        /\ DOMAIN Report.security = {"fips_enabled", "crypto_policy", "stig_installed"}

\* C6, as claimed: two consecutive reports carry different timestamps, the
\* second not earlier than the first, and the same hostname.
C6_Original ==
    (Reported /\ prev.any) =>
        /\ Report.timestamp # prev.timestamp
        /\ Report.timestamp >= prev.timestamp
        /\ Report.system.hostname = prev.hostname

\* C6, amended: of two consecutive reports the second carries a later
\* timestamp unless the wall clock was set back between the two readings, and
\* the same hostname unless the host was renamed between the two readings.
C6_Amended ==
    (Reported /\ prev.any) =>
        /\ ~run.afterSetBack => Report.timestamp > prev.timestamp
        /\ ~run.afterRename => Report.system.hostname = prev.hostname

C6_Witness ==
    /\ Reported
    /\ prev.any
    /\ ~run.afterSetBack
    /\ ~run.afterRename
    /\ Report.timestamp > prev.timestamp
    /\ Report.system.hostname = prev.hostname

\* C7, as claimed: when the boot-status command times out the answer is a 200
\* with bootc_status null, produced within about 5 seconds (less than twice
\* the timeout) of blocking.
C7_Original ==
    (Answered /\ run.how["bootc"] = "timeout") =>
        /\ run.resp.code = 200
        /\ Report.bootc_status = None
        /\ elapsed < 2 * Timeout

\* C7, amended: a request always returns; each command blocks it for at most
\* the timeout; when the boot-status command times out the answer is a 200
\* with bootc_status null, produced within the three commands' blocking time,
\* at most three times the timeout.
C7_Amended ==
    /\ (run.pc # "idle") ~> (run.pc = "idle")
    /\ [][elapsed' = 0 \/ (elapsed' >= elapsed /\ elapsed' <= elapsed + Timeout)]_vars
    /\ []((Answered /\ run.how["bootc"] = "timeout") =>
             /\ run.resp.code = 200
             /\ Report.bootc_status = None
             /\ elapsed >= Timeout
             /\ elapsed <= 3 * Timeout)

\* all three commands ran into the timeout
C7_Witness ==
    /\ Answered
    /\ run.how["bootc"] = "timeout"
    /\ run.resp.code = 200
    /\ elapsed = 3 * Timeout

\* the two documents agree on every field but the one of probe d
SameBut(d, x, y) ==
    /\ DOMAIN x = DOMAIN y
    /\ DOMAIN x.system = DOMAIN y.system
    /\ DOMAIN x.security = DOMAIN y.security
    /\ x.timestamp = y.timestamp
    /\ \A k \in DOMAIN x.system : (d = "uptime" /\ k = "uptime") \/ x.system[k] = y.system[k]
    /\ d # "fips" => x.security.fips_enabled = y.security.fips_enabled
    /\ d # "crypto" => x.security.crypto_policy = y.security.crypto_policy
    /\ d # "stig" => x.security.stig_installed = y.security.stig_installed
    /\ d # "bootc" => x.bootc_status = y.bootc_status

\* C8: two runs that differ in the outcome of one probe only are answered
\* with the same status after the same probes have run, and their reports
\* differ in that probe's field at most.
C8_ProbesIsolated ==
    Answered =>
        /\ twin.pc = "idle"
        /\ twin.resp.code = run.resp.code
        /\ \A p \in Probes : twin.calls[p] = run.calls[p]
        /\ run.resp.code = 200 => SameBut(diff, Report, twin.resp.body)

\* the crypto-policy command failed in one run and not in the other, after
\* an uptime command whose output was not text
C8_Witness ==
    /\ Reported
    /\ diff = "crypto"
    /\ run.how["crypto"] = "timeout"
    /\ twin.how["crypto"] = "ok"
    /\ Report.security.crypto_policy # twin.resp.body.security.crypto_policy
    /\ run.how["uptime"] = "undecodable"

Default(fn) == IF fn = "get_bootc_status" THEN None ELSE Unknown

\* C9: a command that exits 0 within the timeout and writes nothing or
\* whitespace only yields what a failed command yields (null for the boot
\* status, "Unknown" for the crypto policy and the uptime); in every other
\* exit-0 case within the timeout it does not, and yields its standard output
\* without the leading and trailing whitespace.
C9_EmptyIsUnavailable ==
    (/\ call.fn \in {"get_bootc_status", "get_crypto_policy", "uptime"}
     /\ call.arg.kind = "runs"
     /\ call.arg.rc = 0
     /\ call.arg.takes <= Timeout) =>
        IF ~decodable(call.arg.out) THEN call.ret # Default(call.fn)
        ELSE IF AllWhitespace(utf8(call.arg.out)) THEN call.ret = Default(call.fn)
        ELSE call.ret.tag = "str" /\ IsTrimOf(call.ret.chars, utf8(call.arg.out))

\* C10: when a request has been answered each probe has been performed
\* exactly once.
C10_EachProbeOnce == Answered => \A p \in Probes : run.calls[p] = 1

====
